---- MODULE Spec2Model ----
(***************************************************************************)
(* Model of upload_duplicate_104_to_mysql.py: fetch_104_data (the fetcher) *)
(* and the __main__ block (create_all, fetch, MySQL upsert).               *)
(*                                                                         *)
(* Strings that the code splits (URLs, job ids) are sequences of           *)
(* one-character strings.  JSON values decoded by response.json() are      *)
(* tagged records: t is "null", "str" or "obj"; an object carries its      *)
(* key/value mapping in m.  A Python dict of the program (the return value *)
(* of fetch_104_data, a table row) is a function from its keys.            *)
(***************************************************************************)
EXTENDS Integers, Sequences, FiniteSets, TLC

VARIABLES
    pc,           \* position of the run (see the actions below)
    job_url,      \* the URL of the run (line 116) / the argument url
    job_id,       \* the local job_id of fetch_104_data (line 33)
    response,     \* what the HTTP exchange of lines 41-43 produced
    job_details,  \* the value returned by fetch_104_data (line 119)
    raised,       \* the exception that left the current frame, or "none"
    log,          \* loguru records of the run, oldest first
    gets,         \* number of requests.get calls of the run
    table,        \* rows of jobs_104 as stored by the database
    tableExists,  \* whether jobs_104 has been created
    txstate,      \* "none" | "begun" | "executed": the engine.begin() block
    conn,         \* TRUE while a connection is checked out of the engine
    undo,         \* rows to restore if the open transaction rolls back
    tableBefore,  \* history: rows when the transaction of the run began
    upserts,      \* number of conn.execute calls of the run
    runs,         \* number of runs of the program so far
    written       \* history: last committed record per job_id

vars == <<pc, job_url, job_id, response, job_details, raised, log, gets,
          table, tableExists, txstate, conn, undo, tableBefore, upserts,
          runs, written>>

callVars == <<job_url, job_id, response, job_details, raised, gets>>
fetchVars == <<job_url, job_id, response, job_details, raised, log, gets>>
dbVars == <<table, tableExists, txstate, conn, undo, tableBefore, upserts,
            written>>

-----------------------------------------------------------------------------
(* Bounds *)

MaxUrlLen == 4
MaxRuns == 3

-----------------------------------------------------------------------------
(* JSON values and Python dict / truthiness semantics *)

NoKeys == [k \in {} |-> 0]

Null == [t |-> "null", s |-> "", m |-> NoKeys]
Str(v) == [t |-> "str", s |-> v, m |-> NoKeys]
Obj(f) == [t |-> "obj", s |-> "", m |-> f]

EmptyDict == [k \in {} |-> Null]

IsDict(v) == v.t = "obj"

\* bool(v) of Python: None, "" and {} are falsy
Truthy(v) ==
    CASE v.t = "null" -> FALSE
      [] v.t = "str"  -> v.s # ""
      [] v.t = "obj"  -> DOMAIN v.m # {}

\* dict.get(key, default) on a value already known to be a dict
DictGet(d, key, default) ==
    IF key \in DOMAIN d.m THEN d.m[key] ELSE default

\* ASCII stand-in for the literal of line 71 (three CJK characters)
Placeholder == "not-provided"

-----------------------------------------------------------------------------
(* str.split and the job id of line 33 *)

RECURSIVE SplitAcc(_, _, _, _)
SplitAcc(s, sep, cur, acc) ==
    IF s = <<>> THEN Append(acc, cur)
    ELSE IF Head(s) = sep
         THEN SplitAcc(Tail(s), sep, <<>>, Append(acc, cur))
         ELSE SplitAcc(Tail(s), sep, Append(cur, Head(s)), acc)

Split(s, sep) == SplitAcc(s, sep, <<>>, <<>>)

\* url.split('/')[-1].split('?')[0]; [-1] and [0] raise IndexError on an
\* empty list
ParseJobId(url) ==
    LET segs == Split(url, "/")
    IN  IF Len(segs) = 0 THEN [ok |-> FALSE, id |-> <<>>]
        ELSE LET parts == Split(segs[Len(segs)], "?")
             IN  IF Len(parts) = 0 THEN [ok |-> FALSE, id |-> <<>>]
                 ELSE [ok |-> TRUE, id |-> parts[1]]

-----------------------------------------------------------------------------
(* The record built at lines 53-72 *)

Columns == {"job_id", "update_date", "title", "description", "salary",
            "work_type", "work_time", "location", "degree", "department",
            "working_experience", "qualification_required",
            "qualification_bonus", "company_id", "company_name",
            "company_address", "contact_person", "contact_phone"}

NonKeyColumns == Columns \ {"job_id"}

\* column |-> <<section, key>> of job_data
FieldPath ==
    [update_date            |-> <<"header", "appearDate">>,
     title                  |-> <<"header", "jobName">>,
     description            |-> <<"jobDetail", "jobDescription">>,
     salary                 |-> <<"jobDetail", "salary">>,
     work_type              |-> <<"jobDetail", "workType">>,
     work_time              |-> <<"jobDetail", "workPeriod">>,
     location               |-> <<"jobDetail", "addressRegion">>,
     degree                 |-> <<"condition", "edu">>,
     department             |-> <<"jobDetail", "department">>,
     working_experience     |-> <<"condition", "workExp">>,
     qualification_required |-> <<"condition", "other">>,
     qualification_bonus    |-> <<"welfare", "welfare">>,
     company_id             |-> <<"header", "custNo">>,
     company_name           |-> <<"header", "custName">>,
     company_address        |-> <<"company", "address">>,
     contact_person         |-> <<"contact", "hrName">>,
     contact_phone          |-> <<"contact", "email">>]

\* the second argument of the inner .get: only line 71 passes one
FieldDefault(col) ==
    IF col = "contact_phone" THEN Str(Placeholder) ELSE Null

\* job_data.get(section, {}) of one column
SectionOf(job_data, col) == DictGet(job_data, FieldPath[col][1], Obj(NoKeys))

\* .get on a value that is not a dict raises AttributeError
FieldFaults(job_data, col) == ~IsDict(SectionOf(job_data, col))

\* job_data.get(section, {}).get(key[, default])
FieldValue(job_data, col) ==
    DictGet(SectionOf(job_data, col), FieldPath[col][2], FieldDefault(col))

extracted_info(id, job_data) ==
    [c \in Columns |-> IF c = "job_id" THEN id ELSE FieldValue(job_data, c)]

-----------------------------------------------------------------------------
(* fetch_104_data, lines 17-74 *)

\* classes named by the except clause of line 44
CaughtByFetch == {"HTTPError", "JSONDecodeError"}

Returned(id, value, lg, n) ==
    [exc |-> "none", value |-> value, id |-> id, log |-> lg, gets |-> n]

Raised(id, exc, lg, n) ==
    [exc |-> exc, value |-> EmptyDict, id |-> id, log |-> lg, gets |-> n]

\* lines 48-74, data is the decoded body
ExtractFrom(id, data) ==
    IF ~IsDict(data) THEN Raised(id, "AttributeError", <<>>, 1)
    ELSE LET job_data == DictGet(data, "data", Obj(NoKeys))
         IN  IF ~Truthy(job_data)
             THEN Returned(id, EmptyDict, <<"warning:closed">>, 1)
             ELSE IF ~IsDict(job_data)
             THEN Raised(id, "AttributeError", <<>>, 1)
             ELSE IF DictGet(job_data, "custSwitch", Obj(NoKeys)) = Str("off")
             THEN Returned(id, EmptyDict, <<"warning:closed">>, 1)
             ELSE IF \E c \in NonKeyColumns : FieldFaults(job_data, c)
             THEN Raised(id, "AttributeError", <<>>, 1)
             ELSE Returned(id, extracted_info(id, job_data), <<>>, 1)

fetch_104_data(url, resp) ==
    LET p == ParseJobId(url)
    IN  IF ~p.ok THEN Returned(<<>>, EmptyDict, <<"error:job_id">>, 0)
        ELSE IF resp.kind # "ok"
             THEN IF resp.kind \in CaughtByFetch
                  THEN Returned(p.id, EmptyDict, <<"error:request">>, 1)
                  ELSE Raised(p.id, resp.kind, <<>>, 1)
             ELSE ExtractFrom(p.id, resp.body)

-----------------------------------------------------------------------------
(* Inputs: URLs *)

Chars == {"/", "?", "a", "b"}

RECURSIVE SeqsUpTo(_)
SeqsUpTo(n) ==
    IF n = 0 THEN {<<>>}
    ELSE LET shorter == SeqsUpTo(n - 1)
         IN  shorter \cup {Append(s, c) : s \in shorter, c \in Chars}

BoundedUrls == SeqsUpTo(MaxUrlLen)

\* "https://www.104.com.tw/job/" of line 116
JobBase == <<"h","t","t","p","s",":","/","/","w","w","w",".","1","0","4",
             ".","c","o","m",".","t","w","/","j","o","b","/">>

Id8863t == <<"8","8","6","3","t">>

\* job_url of line 116
JobUrl == JobBase \o Id8863t

OtherJobUrl == JobBase \o <<"7","k","2">>

NamedUrls ==
    {JobUrl,
     OtherJobUrl,
     JobUrl \o <<"?","j","s","=","1">>,
     JobUrl \o <<"?","r","=","a","/","b">>,
     JobBase,
     JobBase \o <<"?","x">>}

UrlSet == BoundedUrls \cup NamedUrls

\* the comment of line 115 lets job_url be any valid posting URL
ProgramUrls == {JobUrl, OtherJobUrl}

-----------------------------------------------------------------------------
(* Inputs: HTTP exchanges and decoded bodies *)

SectionNames == {"header", "jobDetail", "condition", "welfare", "company",
                 "contact"}

SectionKeys ==
    [header    |-> {"appearDate", "jobName", "custNo", "custName"},
     jobDetail |-> {"jobDescription", "salary", "workType", "workPeriod",
                    "addressRegion", "department"},
     condition |-> {"edu", "workExp", "other"},
     welfare   |-> {"welfare"},
     company   |-> {"address"},
     contact   |-> {"hrName", "email"}]

\* how a section appears in job_data
SectionKinds == {"missing", "null", "empty", "nullfields", "full"}
CustKinds == {"missing", "off", "on"}

SectionValue(sec, kind, v) ==
    CASE kind = "null"       -> Null
      [] kind = "empty"      -> Obj(NoKeys)
      [] kind = "nullfields" -> Obj([k \in SectionKeys[sec] |-> Null])
      [] kind = "full"       -> Obj([k \in SectionKeys[sec] |-> Str(v)])

JobData(shape, cust, v) ==
    Obj([k \in {sec \in SectionNames : shape[sec] # "missing"}
              \cup (IF cust = "missing" THEN {} ELSE {"custSwitch"}) |->
           IF k = "custSwitch" THEN Str(cust)
           ELSE SectionValue(k, shape[k], v)])

Body(job_data) == Obj([data |-> job_data])

AllFull == [sec \in SectionNames |-> "full"]

\* bodies without a usable data object
OddBodies == {Null, Str("x"), Obj(NoKeys), Body(Null), Body(Str("")),
              Body(Str("x"))}

AllBodies ==
    {Body(JobData(shape, cust, "v1")) :
        shape \in [SectionNames -> SectionKinds], cust \in CustKinds}
    \cup OddBodies

SmallBodies ==
    {Body(JobData(AllFull, "on", "v1")),
     Body(JobData(AllFull, "missing", "v2")),
     Body(JobData([AllFull EXCEPT !["welfare"] = "missing",
                                  !["contact"] = "empty"], "on", "v1")),
     Body(JobData(AllFull, "off", "v1")),
     Body(JobData([AllFull EXCEPT !["header"] = "null"], "on", "v1")),
     Body(Obj(NoKeys))}

\* requests.get raising ConnectionError, raise_for_status raising
\* HTTPError, response.json() raising JSONDecodeError
TransportFailures == {"ConnectionError", "HTTPError", "JSONDecodeError"}

NoResponse == [kind |-> "none", body |-> Null]

Responses(bodies) ==
    {[kind |-> k, body |-> Null] : k \in TransportFailures}
    \cup {[kind |-> "ok", body |-> b] : b \in bodies}

FetchInputs ==
    (UrlSet \X Responses(SmallBodies))
    \cup ({JobUrl} \X Responses(AllBodies))

-----------------------------------------------------------------------------
(* One call of fetch_104_data on every input *)

NoRows == {}
NoWrites == [k \in {} |-> EmptyDict]

InitFetch ==
    /\ pc = "Call"
    /\ \E in \in FetchInputs : job_url = in[1] /\ response = in[2]
    /\ job_id = <<>>
    /\ job_details = EmptyDict
    /\ raised = "none"
    /\ log = <<>>
    /\ gets = 0
    /\ table = NoRows
    /\ tableExists = FALSE
    /\ txstate = "none"
    /\ conn = FALSE
    /\ undo = NoRows
    /\ tableBefore = NoRows
    /\ upserts = 0
    /\ runs = 0
    /\ written = NoWrites

FetchCall ==
    /\ pc = "Call"
    /\ LET r == fetch_104_data(job_url, response)
       IN  /\ pc' = IF r.exc = "none" THEN "Returned" ELSE "Raised"
           /\ job_id' = r.id
           /\ job_details' = r.value
           /\ raised' = r.exc
           /\ log' = r.log
           /\ gets' = r.gets
    /\ UNCHANGED <<job_url, response, runs>>
    /\ UNCHANGED dbVars

NextFetch == FetchCall

SpecFetch == InitFetch /\ [][NextFetch]_vars

-----------------------------------------------------------------------------
(* The database operations of __main__ *)

\* variant of Upsert that merges: a null of rec keeps the stored value
UpsertCoalesce(tbl, rec) ==
    IF \E r \in tbl : r.job_id = rec.job_id
    THEN {IF r.job_id = rec.job_id
          THEN [c \in Columns |->
                  IF c \in NonKeyColumns /\ rec[c] # Null THEN rec[c] ELSE r[c]]
          ELSE r : r \in tbl}
    ELSE tbl \cup {rec}

\* INSERT ... ON DUPLICATE KEY UPDATE of lines 128-141: a row with the
\* primary key of rec gets every non-key column of rec, otherwise rec is
\* inserted
Upsert(tbl, rec) ==
    IF \E r \in tbl : r.job_id = rec.job_id
    THEN {IF r.job_id = rec.job_id
          THEN [c \in Columns |-> IF c \in NonKeyColumns THEN rec[c] ELSE r[c]]
          ELSE r : r \in tbl}
    ELSE tbl \cup {rec}

\* variant of Rollback that leaves the rows as the transaction wrote them
RollbackKeeps(tbl, saved) == tbl

\* leaving the engine.begin() block of line 146 through an exception
Rollback(tbl, saved) == saved

\* what the except clause of line 149 catches
CaughtByMain(exc) == TRUE

Record(id, rec) ==
    [k \in DOMAIN written \cup {id} |-> IF k = id THEN rec ELSE written[k]]

\* bodies the runs of the program receive
ProgramBodies == SmallBodies

-----------------------------------------------------------------------------
(* Runs of the program, lines 76-150 *)

Init ==
    /\ pc = "Start"
    /\ job_url \in ProgramUrls
    /\ job_id = <<>>
    /\ response = NoResponse
    /\ job_details = EmptyDict
    /\ raised = "none"
    /\ log = <<>>
    /\ gets = 0
    /\ table = NoRows
    /\ tableExists = FALSE
    /\ txstate = "none"
    /\ conn = FALSE
    /\ undo = NoRows
    /\ tableBefore = NoRows
    /\ upserts = 0
    /\ runs = 1
    /\ written = NoWrites

\* lines 109-111: metadata.create_all(engine), outside any try
CreateAll ==
    /\ pc = "Start"
    /\ \E dbOk \in BOOLEAN :
         IF dbOk
         THEN /\ tableExists' = TRUE
              /\ log' = log \o <<"info:check", "info:ready">>
              /\ raised' = raised
              /\ pc' = "Fetching"
         ELSE /\ tableExists' = tableExists
              /\ log' = Append(log, "info:check")
              /\ raised' = "OperationalError"
              /\ pc' = "Crashed"
    /\ UNCHANGED <<job_url, job_id, response, job_details, gets, table,
                   txstate, conn, undo, tableBefore, upserts, runs, written>>

\* lines 118-124: the call of fetch_104_data and the test of its result
Fetch ==
    /\ pc = "Fetching"
    /\ \E resp \in Responses(ProgramBodies) :
         LET r == fetch_104_data(job_url, resp)
         IN  /\ response' = resp
             /\ job_id' = r.id
             /\ gets' = gets + r.gets
             /\ job_details' = r.value
             /\ raised' = r.exc
             /\ IF r.exc # "none"
                THEN /\ pc' = "Crashed"
                     /\ log' = log \o <<"info:fetching">> \o r.log
                ELSE IF DOMAIN r.value = {}
                THEN /\ pc' = "FetchFailed"
                     /\ log' = log \o <<"info:fetching">> \o r.log
                                   \o <<"error:fetch-failed">>
                ELSE /\ pc' = "FetchedOk"
                     /\ log' = log \o <<"info:fetching">> \o r.log
                                   \o <<"info:fetched">>
    /\ UNCHANGED <<job_url, runs>>
    /\ UNCHANGED dbVars

\* line 122 is the last statement of that branch: the script ends
EndAfterFetchFailed ==
    /\ pc = "FetchFailed"
    /\ pc' = "Done"
    /\ UNCHANGED <<runs>>
    /\ UNCHANGED fetchVars
    /\ UNCHANGED dbVars

\* lines 128-141: the statement is built, nothing is sent yet
BuildStatement ==
    /\ pc = "FetchedOk"
    /\ pc' = "Persisting"
    /\ UNCHANGED <<runs>>
    /\ UNCHANGED fetchVars
    /\ UNCHANGED dbVars

\* line 146: engine.begin() checks out a connection and begins
BeginTx ==
    /\ pc = "Persisting"
    /\ txstate = "none"
    /\ tableBefore' = table
    /\ \E dbOk \in BOOLEAN :
         IF dbOk
         THEN /\ conn' = TRUE
              /\ txstate' = "begun"
              /\ undo' = table
              /\ UNCHANGED <<pc, log>>
         ELSE /\ CaughtByMain("OperationalError")
              /\ log' = Append(log, "error:db:connect")
              /\ pc' = "PersistFailed"
              /\ UNCHANGED <<conn, txstate, undo>>
    /\ UNCHANGED <<table, tableExists, upserts, runs, written>>
    /\ UNCHANGED callVars

\* line 147: conn.execute(update_stmt); an exception leaves the with
\* block, which rolls back and releases the connection, and is caught at
\* line 149
Execute ==
    /\ pc = "Persisting"
    /\ txstate = "begun"
    /\ upserts' = upserts + 1
    /\ \E dbOk \in BOOLEAN :
         IF dbOk
         THEN /\ table' = Upsert(table, job_details)
              /\ txstate' = "executed"
              /\ UNCHANGED <<pc, log, conn>>
         ELSE /\ CaughtByMain("DBAPIError")
              /\ table' = Rollback(table, undo)
              /\ txstate' = "none"
              /\ conn' = FALSE
              /\ log' = Append(log, "error:db:execute")
              /\ pc' = "PersistFailed"
    /\ UNCHANGED <<tableExists, undo, tableBefore, runs, written>>
    /\ UNCHANGED callVars

\* the end of the with block: commit and release; line 148 on success,
\* rollback, release and line 150 when the commit raises
Commit ==
    /\ pc = "Persisting"
    /\ txstate = "executed"
    /\ txstate' = "none"
    /\ conn' = FALSE
    /\ \E dbOk \in BOOLEAN :
         IF dbOk
         THEN /\ written' = Record(job_details.job_id, job_details)
              /\ log' = Append(log, "info:saved")
              /\ pc' = "Done"
              /\ UNCHANGED table
         ELSE /\ CaughtByMain("OperationalError")
              /\ table' = Rollback(table, undo)
              /\ log' = Append(log, "error:db:commit")
              /\ pc' = "PersistFailed"
              /\ UNCHANGED written
    /\ UNCHANGED <<tableExists, undo, tableBefore, upserts, runs>>
    /\ UNCHANGED callVars

RunEnded == pc \in {"Done", "PersistFailed", "Crashed"}

\* the program is started again; the database keeps its rows
NewRun ==
    /\ RunEnded
    /\ runs < MaxRuns
    /\ runs' = runs + 1
    /\ pc' = "Start"
    /\ job_url' \in ProgramUrls
    /\ job_id' = <<>>
    /\ response' = NoResponse
    /\ job_details' = EmptyDict
    /\ raised' = "none"
    /\ log' = <<>>
    /\ gets' = 0
    /\ upserts' = 0
    /\ undo' = NoRows
    /\ tableBefore' = table
    /\ UNCHANGED <<table, tableExists, txstate, conn, written>>

Next ==
    \/ CreateAll
    \/ Fetch
    \/ EndAfterFetchFailed
    \/ BuildStatement
    \/ BeginTx
    \/ Execute
    \/ Commit
    \/ NewRun

Spec == Init /\ [][Next]_vars

-----------------------------------------------------------------------------
(* What the claims read off an input, written from their wording *)

Last(q) == q[Len(q)]

\* strip everything from the first '?', then take the last '/' segment
PathSegmentId(url) == Last(Split(Split(url, "?")[1], "/"))

HasDataObject(body) ==
    /\ IsDict(body)
    /\ "data" \in DOMAIN body.m
    /\ IsDict(body.m.data)
    /\ DOMAIN body.m.data.m # {}

\* the data section is missing or empty
DataMissingOrEmpty(body) ==
    \/ ~IsDict(body)
    \/ "data" \notin DOMAIN body.m
    \/ ~Truthy(body.m.data)

DataClosed(body) ==
    /\ HasDataObject(body)
    /\ "custSwitch" \in DOMAIN body.m.data.m
    /\ body.m.data.m.custSwitch = Str("off")

OpenPosting(body) == HasDataObject(body) /\ ~DataClosed(body)

\* the section of a column is not there: key absent, or present with null
SectionAbsent(body, col) ==
    LET sec == FieldPath[col][1]
    IN  \/ sec \notin DOMAIN body.m.data.m
        \/ body.m.data.m[sec] = Null

\* the source gives no value for a column
SourceAbsent(body, col) ==
    \/ SectionAbsent(body, col)
    \/ LET sec == body.m.data.m[FieldPath[col][1]]
       IN  /\ IsDict(sec)
           /\ \/ FieldPath[col][2] \notin DOMAIN sec.m
              \/ sec.m[FieldPath[col][2]] = Null

IsAbsent(v) == DOMAIN v = {}
IsCompleteRecord(v) == DOMAIN v = Columns

Called == pc \in {"Returned", "Raised"}

InLog(tag) == \E i \in 1..Len(log) : log[i] = tag

-----------------------------------------------------------------------------
(* Claims *)

\* C1: outside a transaction the table holds exactly one row for each
\* job_id ever committed, that row equals the record of the most recent
\* committed upsert of that job_id in every column (a null of the record
\* included), and the table holds no other row.
C1_LastWriteWins ==
    txstate = "none" =>
        /\ \A id \in DOMAIN written :
              {r \in table : r.job_id = id} = {written[id]}
        /\ \A r \in table : r.job_id \in DOMAIN written

\* a committed upsert replaced a non-null qualification_bonus by null
\* while a row of another job_id is stored
C1_Witness ==
    /\ pc = "Done"
    /\ upserts = 1
    /\ \E old \in tableBefore, new \in table :
          /\ old.job_id = new.job_id
          /\ old.qualification_bonus = Str("v1")
          /\ new.qualification_bonus = Null
          /\ old.title = new.title
    /\ \E o \in table : o.job_id # job_details.job_id

\* C2: after a call whose HTTP exchange failed (connection error, non-2xx
\* status, undecodable body) fetch_104_data has returned the empty dict,
\* has logged an error, and no exception left it.
C2_TransportFailureAbsent ==
    (Called /\ response.kind \in TransportFailures) =>
        /\ pc = "Returned"
        /\ raised = "none"
        /\ IsAbsent(job_details)
        /\ InLog("error:request")

\* C3: after a call with a decoded body, fetch_104_data has returned; the
\* result is the empty dict when the data section is missing, empty or
\* closed, and otherwise a record with all 18 fields whose job_id is the
\* derived identifier.
C3_AbsentOrComplete ==
    (Called /\ response.kind = "ok") =>
        /\ pc = "Returned"
        /\ IF DataMissingOrEmpty(response.body) \/ DataClosed(response.body)
           THEN IsAbsent(job_details)
           ELSE /\ IsCompleteRecord(job_details)
                /\ job_details.job_id = job_id

\* C4: the identifier derived by fetch_104_data is the last '/' segment
\* of the URL with its query string stripped first.
C4_IdIsPathSegment ==
    Called => job_id = PathSegmentId(job_url)

\* C5: when the URL has no final non-query path segment, fetch_104_data
\* logs the malformed URL and returns the empty dict; no returned record
\* has an empty job_id.
C5_MalformedUrlAbsent ==
    Called =>
        /\ PathSegmentId(job_url) = <<>> =>
              /\ pc = "Returned"
              /\ IsAbsent(job_details)
              /\ InLog("error:job_id")
        /\ ~IsAbsent(job_details) => job_details.job_id # <<>>

\* C6: for an open posting, fetch_104_data returns a complete record in
\* which every field of a section that is absent or null is null
\* (contact_phone, which has its own default, aside), and does not fault.
C6_MissingSectionNull ==
    (Called /\ response.kind = "ok" /\ OpenPosting(response.body)) =>
        /\ pc = "Returned"
        /\ IsCompleteRecord(job_details)
        /\ \A c \in NonKeyColumns \ {"contact_phone"} :
              SectionAbsent(response.body, c) => job_details[c] = Null

\* C7: in every returned record contact_phone is not null, it is the
\* placeholder when the source has no value for it, and every other
\* optional field is null when the source has no value for it.
C7_PhonePlaceholder ==
    (pc = "Returned" /\ ~IsAbsent(job_details)) =>
        /\ job_details.contact_phone # Null
        /\ SourceAbsent(response.body, "contact_phone") =>
              job_details.contact_phone = Str(Placeholder)
        /\ \A c \in NonKeyColumns \ {"contact_phone"} :
              SourceAbsent(response.body, c) => job_details[c] = Null

DatabaseErrors == {"OperationalError", "DBAPIError"}

\* C8: no database exception ends a run abnormally, at whichever database
\* operation it is raised.
C8_DbErrorsCaught ==
    ~(pc = "Crashed" /\ raised \in DatabaseErrors)

C9_Transitions ==
    {<<"Start", "Fetching">>, <<"Fetching", "FetchedOk">>,
     <<"FetchedOk", "Persisting">>, <<"Persisting", "Done">>,
     <<"Persisting", "PersistFailed">>, <<"Fetching", "FetchFailed">>,
     <<"FetchFailed", "Done">>}

\* C9: every step of a run is one of the transitions of the state machine
\* (or starts the next run), a run that ended has done exactly one GET,
\* at most one upsert is executed and only with a non-empty record, and a
\* failed fetch leaves the rows as they were.
C9_LinearRun ==
    [][/\ pc' # pc => \/ <<pc, pc'>> \in C9_Transitions
                      \/ RunEnded /\ pc' = "Start"
       /\ RunEnded' => gets' = 1
       /\ upserts' <= 1
       /\ upserts' = 1 => ~IsAbsent(job_details')
       /\ pc' = "FetchFailed" => table' = table]_vars

\* C10: a run whose upsert failed leaves the rows exactly as they were
\* before the transaction began, a run whose upsert was committed holds
\* the upserted rows, and no connection or transaction stays open once the
\* run has ended.
C10_AtomicUpsert ==
    /\ pc = "PersistFailed" => table = tableBefore
    /\ (pc = "Done" /\ upserts = 1) => table = Upsert(tableBefore, job_details)
    /\ RunEnded => (~conn /\ txstate = "none")

\* the commit failed after the statement had changed the rows
C10_Witness ==
    /\ pc = "PersistFailed"
    /\ upserts = 1
    /\ InLog("error:db:commit")
    /\ Upsert(table, job_details) # table

====
